---- MODULE Spec2Model ----
(***************************************************************************)
(* kvtool (src/kvtool.ts, v0.4.0): a CLI for Cloudflare Workers KV.        *)
(*                                                                         *)
(* The model has three parts.                                              *)
(*   - JavaScript values and the JSON conversions the tool applies to      *)
(*     them (JSON.stringify, response.json()).                             *)
(*   - The remote API as the tool sees it: namespaces in title order, the  *)
(*     paged listing, key listing, value read, bulk upsert, bulk delete.   *)
(*     A request is served when its response is received; every envelope   *)
(*     endpoint may also answer with a non-success envelope.               *)
(*   - The tool itself: one process per CLI invocation, one action per     *)
(*     fetchAPI call (send, then receive) and per file-system operation.   *)
(***************************************************************************)
EXTENDS Integers, Sequences, FiniteSets, TLC

\* ------------------------------------------------------------------ bounds

\* The largest number of namespaces the account holds in the listing runs.
MaxNs == 41

\* ------------------------------------------------------------- JS values

Undefined == 0

Keys == {"x", "y", "z"}

KeyRank(k) == CASE k = "x" -> 1 [] k = "y" -> 2 [] OTHER -> 3

Titles == {"A", "B", "C", "Z"}

TitleRank(t) == CASE t = "A" -> 1 [] t = "B" -> 2 [] t = "C" -> 3 [] OTHER -> 4

\* A JavaScript value as response.json() yields it: t is typeof-like, n the
\* number (or the boolean as 0/1, or an object's one property value), s the
\* string (or the object's one property name).
JsNumber(n) == [t |-> "number", n |-> n, s |-> ""]
JsString(s) == [t |-> "string", n |-> 0, s |-> s]
JsBoolean(b) == [t |-> "boolean", n |-> IF b THEN 1 ELSE 0, s |-> ""]
JsNull == [t |-> "null", n |-> 0, s |-> ""]
JsObject(name, n) == [t |-> "object", n |-> n, s |-> name]
JsSyntaxError == [t |-> "SyntaxError", n |-> 0, s |-> ""]
\* The object a non-success envelope of one error parses to: n is the
\* error's code, s its message.
JsEnvelope(code, message) == [t |-> "envelope", n |-> code, s |-> message]

\* The body of a response that carries a non-success envelope.
ErrorBody ==
    "{\"success\":false,\"errors\":[{\"code\":10000,\"message\":\"Authentication error\"}],\"result\":null}"

\* The JSON texts a namespace may hold as values.
Docs == {"1", "0", "\"a\"", "\"\"", "true", "false", "null", "{\"n\":1}"}

\* if (!value): JavaScript's falsy values among the JSON values.
Truthy(v) ==
    CASE v.t = "number" -> v.n # 0
      [] v.t = "string" -> v.s # ""
      [] v.t = "boolean" -> v.n = 1
      [] v.t \in {"object", "envelope"} -> TRUE
      [] OTHER -> FALSE

\* Mutant of JSONstringify: String(value), a string written without quotes.
JSONstringifyString(v) ==
    CASE v.t = "number" -> ToString(v.n)
      [] v.t = "string" -> v.s
      [] v.t = "boolean" -> (IF v.n = 1 THEN "true" ELSE "false")
      [] v.t \in {"object", "envelope"} -> "[object Object]"
      [] OTHER -> "null"

\* JSON.stringify(value) for a value that came from JSON.
JSONstringify(v) ==
    CASE v.t = "number" -> ToString(v.n)
      [] v.t = "string" -> "\"" \o v.s \o "\""
      [] v.t = "boolean" -> (IF v.n = 1 THEN "true" ELSE "false")
      [] v.t = "object" -> "{\"" \o v.s \o "\":" \o ToString(v.n) \o "}"
      [] v.t = "envelope" ->
            "{\"success\":false,\"errors\":[{\"code\":" \o ToString(v.n)
                \o ",\"message\":\"" \o v.s \o "\"}],\"result\":null}"
      [] OTHER -> "null"

\* JSON.parse(text) / response.json(): the texts of Docs and ErrorBody, a
\* SyntaxError for anything else.
JSONparse(text) ==
    CASE text = "1" -> JsNumber(1)
      [] text = "0" -> JsNumber(0)
      [] text = "\"a\"" -> JsString("a")
      [] text = "\"\"" -> JsString("")
      [] text = "true" -> JsBoolean(TRUE)
      [] text = "false" -> JsBoolean(FALSE)
      [] text = "null" -> JsNull
      [] text = "{\"n\":1}" -> JsObject("n", 1)
      [] text = ErrorBody -> JsEnvelope(10000, "Authentication error")
      [] OTHER -> JsSyntaxError

\* --------------------------------------------------------- the transport

\* The error lists a non-success envelope may carry.
ErrorLists ==
    { <<>>,
      << [code |-> 10000, message |-> "Authentication error"] >>,
      << [code |-> 10013, message |-> "namespace not found"],
         [code |-> 7003, message |-> "no route"] >> }

\* ApiError.stringify
stringify(error) == ToString(error.code) \o ": " \o error.message

\* Mutant of join: only the first message is kept.
joinFirst(messages, sep) == IF Len(messages) = 0 THEN "" ELSE messages[1]

RECURSIVE join(_, _)
\* Array.prototype.join
join(messages, sep) ==
    IF Len(messages) = 0 THEN ""
    ELSE IF Len(messages) = 1 THEN messages[1]
    ELSE messages[1] \o sep \o join(Tail(messages), sep)

\* errors.map(error => ApiError.stringify(error)).join("\n")
ErrorMessage(errors) ==
    join([i \in 1..Len(errors) |-> stringify(errors[i])], "\n")

\* -------------------------------------------------------- the remote store

VARIABLES
    store,      \* the account's namespaces, in the order a listing reports them
    nextId,     \* the identifier the next created namespace gets
    fsDirs,     \* the directories that exist on the local file system
    fsFiles,    \* path -> content of the files under them
    proc        \* one record per CLI invocation

vars == <<store, nextId, fsDirs, fsFiles, proc>>

Min(a, b) == IF a < b THEN a ELSE b

\* order=title; namespaces that share a title are reported oldest first.
Before(a, b) ==
    \/ TitleRank(a.title) < TitleRank(b.title)
    \/ TitleRank(a.title) = TitleRank(b.title) /\ a.id < b.id

InsertNs(s, ns) ==
    LET k == Cardinality({i \in 1..Len(s) : Before(s[i], ns)})
    IN  SubSeq(s, 1, k) \o <<ns>> \o SubSeq(s, k + 1, Len(s))

HasNs(s, id) == \E i \in 1..Len(s) : s[i].id = id

NsOf(s, id) == s[CHOOSE i \in 1..Len(s) : s[i].id = id]

RemoveNs(s, id) == SelectSeq(s, LAMBDA n : n.id # id)

ReplaceNs(s, ns) == [i \in 1..Len(s) |-> IF s[i].id = ns.id THEN ns ELSE s[i]]

\* The Namespace objects of one page: GET namespaces?page=&per_page=&order=title
ServePage(s, page, per) ==
    LET first == (page - 1) * per + 1
        last == Min(page * per, Len(s))
    IN  [i \in 1..(IF last < first THEN 0 ELSE last - first + 1) |->
            [id |-> s[first + i - 1].id, title |-> s[first + i - 1].title]]

\* POST namespaces {title}
ServeCreate(s, id, title) ==
    InsertNs(s, [id |-> id, title |-> title, kv |-> <<>>])

\* PUT namespaces/<id> {title}
ServeRename(s, id, title) ==
    InsertNs(RemoveNs(s, id), [NsOf(s, id) EXCEPT !.title = title])

RECURSIVE SortKeys(_)
SortKeys(ks) ==
    IF ks = {} THEN <<>>
    ELSE LET k == CHOOSE a \in ks : \A b \in ks : KeyRank(a) <= KeyRank(b)
         IN  <<k>> \o SortKeys(ks \ {k})

\* The most key entries one key-listing response carries. The remote API
\* pages its key listings (1000 entries a response); the model scales the
\* page down so that a namespace can hold more keys than one response.
KeysLimit == 2

\* GET namespaces/<id>/keys: the first page of key entries, in key order
ServeKeys(s, id) ==
    LET names == SortKeys(DOMAIN NsOf(s, id).kv)
    IN  [i \in 1..Min(Len(names), KeysLimit) |-> [name |-> names[i]]]

\* GET namespaces/<id>/values/<key>: the raw value
ServeValue(s, id, key) == NsOf(s, id).kv[key]

\* PUT namespaces/<id>/bulk [{key, value}]: a later pair of the body wins
ServeBulkPut(s, id, pairs) ==
    LET ns == NsOf(s, id)
        named == {pairs[i].key : i \in 1..Len(pairs)}
        lastOf(k) == CHOOSE i \in 1..Len(pairs) :
                        /\ pairs[i].key = k
                        /\ \A j \in 1..Len(pairs) : pairs[j].key = k => j <= i
        kv == [k \in DOMAIN ns.kv \cup named |->
                  IF k \in named THEN pairs[lastOf(k)].value ELSE ns.kv[k]]
    IN  ReplaceNs(s, [ns EXCEPT !.kv = kv])

\* DELETE namespaces/<id>/bulk [name]
ServeBulkDelete(s, id, names) ==
    LET ns == NsOf(s, id)
        gone == {names[i] : i \in 1..Len(names)}
        kv == [k \in DOMAIN ns.kv \ gone |-> ns.kv[k]]
    IN  ReplaceNs(s, [ns EXCEPT !.kv = kv])

\* ---------------------------------------------------------------- the tool

\* const perPage = 20
perPage == 20

Procs == {1, 2}

\* The directories dump is pointed at: one that does not exist, an empty
\* one, and one that holds a file of an earlier dump.
Dirs == {"new", "out", "old"}

\* join(dir, pair.key), for a key that is a plain file name
joinPath(dir, key) == dir \o "/" \o key

NoValue == [k \in Keys |-> JsNull]

Idle ==
    [ cmd |-> "none", src |-> "", dest |-> "", dir |-> "",
      pc |-> "idle", ret |-> "", called |-> <<>>,
      page |-> 0, namespaces |-> <<>>,
      id |-> Undefined, srcId |-> Undefined, destId |-> Undefined,
      keys |-> <<>>, vstate |-> [k \in Keys |-> "none"], value |-> NoValue,
      pairs |-> <<>>, wstate |-> [k \in Keys |-> "none"], ensure |-> "none",
      err |-> "", log |-> <<>>, awaiting |-> 0, inflight |-> {},
      badReq |-> 0, badErrors |-> <<>>, refused |-> {}, bound |-> <<>> ]

\* One request as fetchAPI sends it. pairs is the body of a bulk upsert as
\* JSON.stringify(body) puts it on the wire, names the body of a bulk delete,
\* title the body of a create or a rename.
Request(method, category, action, id, page, key, title, pairs, names) ==
    [ method |-> method, category |-> category, action |-> action,
      id |-> id, page |-> page, key |-> key, title |-> title,
      pairs |-> pairs, names |-> names ]

\* fetch(...): the request leaves; the main chain awaits it.
Send(P, req) ==
    [P EXCEPT !.log = Append(@, req),
              !.inflight = @ \cup {Len(P.log) + 1},
              !.awaiting = Len(P.log) + 1]

\* await response.json() of the awaited request
Received(P) == [P EXCEPT !.inflight = @ \ {P.awaiting}, !.awaiting = 0]

\* throw Error(message): the command's promise rejects; the first error stands.
Throw(P, message) ==
    IF P.pc = "failed" THEN P ELSE [P EXCEPT !.pc = "failed", !.err = message]

\* Mutant of FindId: the last namespace of the title is taken.
FindIdLast(list, title) ==
    IF \E i \in 1..Len(list) : list[i].title = title
    THEN list[CHOOSE i \in 1..Len(list) :
                /\ list[i].title = title
                /\ \A j \in (i + 1)..Len(list) : list[j].title # title].id
    ELSE Undefined

\* list.find(namespace => namespace.title === title), then
\* namespace ? namespace.id : undefined
FindId(list, title) ==
    IF \E i \in 1..Len(list) : list[i].title = title
    THEN list[CHOOSE i \in 1..Len(list) :
                /\ list[i].title = title
                /\ \A j \in 1..(i - 1) : list[j].title # title].id
    ELSE Undefined

\* Mutant of AfterListRename: the check of id is left out.
AfterListRenameNoCheck(Q, id) == [Q EXCEPT !.id = id, !.pc = "rename_put"]

\* renameNamespace after getNamespaceId: if (!id) throw
AfterListRename(Q, id) ==
    IF id = Undefined
    THEN Throw(Q, "Namespace " \o Q.src \o " not found")
    ELSE [Q EXCEPT !.id = id, !.pc = "rename_put"]

\* bulkGetNamespace after getNamespaceId: if (!srcId) throw
AfterListBulkGet(Q, srcId) ==
    IF srcId = Undefined
    THEN Throw(Q, "Namespace " \o Q.src \o " not found.")
    ELSE [Q EXCEPT !.srcId = srcId, !.pc = "keys"]

\* clearNamespace after getNamespaceId: if (!id) throw
AfterListClear(Q, id) ==
    IF id = Undefined
    THEN Throw(Q, "Namespace " \o Q.src \o " not found.")
    ELSE [Q EXCEPT !.id = id, !.pc = "keys"]

\* Mutant of AfterListCopyDest: the destination is created whether or not
\* its title was found.
AfterListCopyDestCreate(Q, destId) == [Q EXCEPT !.pc = "create"]

\* copyNamespace: getNamespaceId(dest) ?? createNamespace(dest, false)
AfterListCopyDest(Q, destId) ==
    IF destId = Undefined
    THEN [Q EXCEPT !.pc = "create"]
    ELSE [Q EXCEPT !.destId = destId, !.pc = "bulk_put"]

\* What runs when listNamespaces returns `namespaces` to its caller, up to
\* the caller's next await.
AfterList(P, namespaces) ==
    LET Q == [P EXCEPT !.namespaces = namespaces] IN
    CASE P.ret = "list" -> [Q EXCEPT !.pc = "done"]
      [] P.ret = "resolve" ->
            [Q EXCEPT !.id = FindId(namespaces, P.src), !.pc = "done"]
      [] P.ret = "rename" -> AfterListRename(Q, FindId(namespaces, P.src))
      [] P.ret = "bulkGet" -> AfterListBulkGet(Q, FindId(namespaces, P.src))
      [] P.ret = "clear" -> AfterListClear(Q, FindId(namespaces, P.src))
      [] OTHER -> AfterListCopyDest(Q, FindId(namespaces, P.dest))

\* listNamespaces is entered: page = 1, namespaces = []
EnterList(P, ret) ==
    [P EXCEPT !.pc = "list", !.ret = ret, !.page = 1, !.namespaces = <<>>]

\* The command lines tried: <command, src or title, dest, dir>
Commands ==
    {<<"list", "", "", "">>}
    \cup {<<"resolve", t, "", "">> : t \in {"A", "B", "C"}}
    \cup {<<"create", t, "", "">> : t \in {"A", "C"}}
    \cup {<<"rename", t, d, "">> : t \in {"A", "C"}, d \in {"B", "Z"}}
    \cup {<<"copy", t, d, "">> : t \in {"A", "C"}, d \in {"A", "B"}}
    \cup {<<"clear", t, "", "">> : t \in {"A", "B", "C"}}
    \cup {<<"dump", t, "", d>> : t \in {"A", "C"}, d \in Dirs}
    \cup {<<"pages", t, "", "">> : t \in {"site", "bare", "gone"}}

\* The command line is parsed and the command's action is called. The large
\* accounts are only listed and resolved.
Invoke(p) ==
    /\ proc[p].pc = "idle"
    /\ \E c \in Commands :
        /\ Len(store) > 3 => c[1] \in {"list", "resolve"}
        /\ LET P == [Idle EXCEPT !.cmd = c[1], !.src = c[2], !.dest = c[3],
                                 !.dir = c[4], !.called = store]
           IN proc' = [proc EXCEPT ![p] =
                CASE c[1] = "create" -> [P EXCEPT !.pc = "create"]
                  [] c[1] = "pages" -> [P EXCEPT !.pc = "pages"]
                  [] c[1] \in {"copy", "dump"} -> EnterList(P, "bulkGet")
                  [] OTHER -> EnterList(P, c[1])]
    /\ UNCHANGED <<store, nextId, fsDirs, fsFiles>>

\* fetchAPI, lines 70-74: the awaited response is a non-success envelope.
FetchThrows(p) ==
    /\ proc[p].awaiting # 0
    /\ \E errors \in ErrorLists :
        proc' = [proc EXCEPT ![p] =
            Throw([Received(@) EXCEPT !.badReq = proc[p].awaiting,
                                      !.badErrors = errors],
                  ErrorMessage(errors))]
    /\ UNCHANGED <<store, nextId, fsDirs, fsFiles>>

\* listNamespaces: the page request of one turn of the loop
ListSend(p) ==
    /\ proc[p].pc = "list"
    /\ proc' = [proc EXCEPT ![p] =
            [Send(@, Request("GET", "storage/kv", "namespaces", Undefined,
                             proc[p].page, "", "", <<>>, <<>>))
                EXCEPT !.pc = "list_wait"]]
    /\ UNCHANGED <<store, nextId, fsDirs, fsFiles>>

\* Mutant of LastPage: only an empty page ends the loop.
LastPageEmpty(result) == Len(result) = 0

\* Mutant of LastPage: a page one short of full is taken for a full one.
LastPageStrict(result) == Len(result) < perPage - 1

\* if (result.length < perPage) break
LastPage(result) == Len(result) < perPage

\* Mutant of NextPage: a page is skipped.
NextPageSkip(page) == page + 2

\* page++
NextPage(page) == page + 1

\* listNamespaces: the page arrives; concat, then break or page++
ListRespond(p) ==
    /\ proc[p].pc = "list_wait"
    /\ LET P == Received(proc[p])
           result == ServePage(store, P.page, perPage)
           namespaces == P.namespaces \o result
       IN  proc' = [proc EXCEPT ![p] =
                IF LastPage(result)
                THEN AfterList(P, namespaces)
                ELSE [P EXCEPT !.namespaces = namespaces,
                               !.page = NextPage(P.page), !.pc = "list"]]
    /\ UNCHANGED <<store, nextId, fsDirs, fsFiles>>

\* renameNamespace: PUT namespaces/<id> with { title: dest }
RenameSend(p) ==
    /\ proc[p].pc = "rename_put"
    /\ proc' = [proc EXCEPT ![p] =
            [Send(@, Request("PUT", "storage/kv", "namespaces/id", proc[p].id,
                             0, "", proc[p].dest, <<>>, <<>>))
                EXCEPT !.pc = "rename_wait"]]
    /\ UNCHANGED <<store, nextId, fsDirs, fsFiles>>

RenameRespond(p) ==
    /\ proc[p].pc = "rename_wait"
    /\ HasNs(store, proc[p].id)
    /\ store' = ServeRename(store, proc[p].id, proc[p].log[proc[p].awaiting].title)
    /\ proc' = [proc EXCEPT ![p] = [Received(@) EXCEPT !.pc = "done"]]
    /\ UNCHANGED <<nextId, fsDirs, fsFiles>>

\* createNamespace: POST namespaces with { title }
CreateSend(p) ==
    /\ proc[p].pc = "create"
    /\ proc' = [proc EXCEPT ![p] =
            [Send(@, Request("POST", "storage/kv", "namespaces", Undefined, 0, "",
                             IF proc[p].cmd = "create" THEN proc[p].src
                             ELSE proc[p].dest, <<>>, <<>>))
                EXCEPT !.pc = "create_wait"]]
    /\ UNCHANGED <<store, nextId, fsDirs, fsFiles>>

\* createNamespace returns response.result.id; copy goes on to the upsert.
CreateRespond(p) ==
    /\ proc[p].pc = "create_wait"
    /\ store' = ServeCreate(store, nextId, proc[p].log[proc[p].awaiting].title)
    /\ nextId' = nextId + 1
    /\ proc' = [proc EXCEPT ![p] =
            IF proc[p].cmd = "create"
            THEN [Received(@) EXCEPT !.id = nextId, !.pc = "done"]
            ELSE [Received(@) EXCEPT !.destId = nextId, !.pc = "bulk_put"]]
    /\ UNCHANGED <<fsDirs, fsFiles>>

\* The key listing: bulkGetNamespace asks "strage/kv" (line 162),
\* clearNamespace "storage/kv" (line 189).
KeysSend(p) ==
    /\ proc[p].pc = "keys"
    /\ proc' = [proc EXCEPT ![p] =
            [Send(@, IF proc[p].ret = "bulkGet"
                     THEN Request("GET", "strage/kv", "namespaces/id/keys",
                                  proc[p].srcId, 0, "", "", <<>>, <<>>)
                     ELSE Request("GET", "storage/kv", "namespaces/id/keys",
                                  proc[p].id, 0, "", "", <<>>, <<>>))
                EXCEPT !.pc = "keys_wait"]]
    /\ UNCHANGED <<store, nextId, fsDirs, fsFiles>>

\* Mutant of PairsOf: the callbacks share one variable for the value, and
\* every pair carries the value of the first key.
PairsOfFirstValue(keys, value) ==
    [i \in 1..Len(keys) |->
        [key |-> keys[i].name, value |-> value[keys[1].name]]]

\* The pairs in key order, as Promise.all resolves them.
PairsOf(keys, value) ==
    [i \in 1..Len(keys) |->
        [key |-> keys[i].name, value |-> value[keys[i].name]]]

\* bulkGetNamespace returns `pairs` to copyNamespace or to dumpNamespace.
\* dump: ensureDir(dir) is called and not awaited, and every write is
\* started by pairs.map before Promise.all is awaited.
AfterBulkGet(P, pairs) ==
    IF P.cmd = "copy"
    THEN EnterList([P EXCEPT !.pairs = pairs], "copyDest")
    ELSE [P EXCEPT !.pairs = pairs,
                   !.ensure = "lstat",
                   !.wstate = [k \in Keys |->
                        IF \E i \in 1..Len(pairs) : pairs[i].key = k
                        THEN "start" ELSE "none"],
                   !.pc = IF Len(pairs) = 0 THEN "done" ELSE "writing"]

\* response.result of the key listing; keys.map starts one fetch per key.
KeysRespond(p) ==
    /\ proc[p].pc = "keys_wait"
    /\ HasNs(store, proc[p].log[proc[p].awaiting].id)
    /\ LET P == Received(proc[p])
           keys == ServeKeys(store, proc[p].log[proc[p].awaiting].id)
           Q == [P EXCEPT !.keys = keys]
       IN  proc' = [proc EXCEPT ![p] =
                IF P.ret = "clear" THEN [Q EXCEPT !.pc = "bulk_delete"]
                ELSE IF Len(keys) = 0 THEN AfterBulkGet(Q, <<>>)
                ELSE [Q EXCEPT !.pc = "values",
                               !.vstate = [k \in Keys |->
                                    IF \E i \in 1..Len(keys) : keys[i].name = k
                                    THEN "start" ELSE "none"]]]
    /\ UNCHANGED <<store, nextId, fsDirs, fsFiles>>

\* Mutant of ValueSend: the value is asked of the destination.
ValueSendDest(p, k) ==
    /\ proc[p].vstate[k] = "start"
    /\ proc' = [proc EXCEPT ![p] =
            [@ EXCEPT !.log = Append(@, Request("GET", "storage/kv",
                                "namespaces/id/values/key", proc[p].destId, 0, k,
                                "", <<>>, <<>>)),
                      !.inflight = @ \cup {Len(proc[p].log) + 1},
                      !.vstate[k] = "sent"]]
    /\ UNCHANGED <<store, nextId, fsDirs, fsFiles>>

\* One callback of keys.map: GET namespaces/<srcId>/values/<key.name>
ValueSend(p, k) ==
    /\ proc[p].vstate[k] = "start"
    /\ proc' = [proc EXCEPT ![p] =
            [@ EXCEPT !.log = Append(@, Request("GET", "storage/kv",
                                "namespaces/id/values/key", proc[p].srcId, 0, k,
                                "", <<>>, <<>>)),
                      !.inflight = @ \cup {Len(proc[p].log) + 1},
                      !.vstate[k] = "sent"]]
    /\ UNCHANGED <<store, nextId, fsDirs, fsFiles>>

\* The request of key k that is in flight
ValueRequest(P, k) ==
    CHOOSE i \in P.inflight :
        P.log[i].action = "namespaces/id/values/key" /\ P.log[i].key = k

\* The callback's value arrives: if (!value) throw, else { key, value }.
\* Promise.all resolves when the last callback has returned.
ValueArrives(P, k, value) ==
    LET Q == [P EXCEPT !.inflight = @ \ {ValueRequest(P, k)}] IN
    IF ~Truthy(value)
    THEN Throw([Q EXCEPT !.vstate[k] = "missing"],
               "Value not found for a key " \o k \o ".")
    ELSE LET R == [Q EXCEPT !.vstate[k] = "ok", !.value[k] = value] IN
         IF R.pc = "values" /\ \A j \in Keys : R.vstate[j] \in {"none", "ok"}
         THEN AfterBulkGet(R, PairsOf(R.keys, R.value))
         ELSE R

\* fetchAPI, lines 64-66: the body of a value read is returned as it parses.
ValueRespond(p, k) ==
    /\ proc[p].vstate[k] = "sent"
    /\ HasNs(store, proc[p].srcId)
    /\ k \in DOMAIN NsOf(store, proc[p].srcId).kv
    /\ proc' = [proc EXCEPT ![p] =
            ValueArrives(@, k, JSONparse(ServeValue(store, proc[p].srcId, k)))]
    /\ UNCHANGED <<store, nextId, fsDirs, fsFiles>>

\* fetchAPI, lines 64-66: the remote answers a value read with a non-success
\* envelope; the body is returned as it parses, and is the callback's value.
ValueRefused(p, k) ==
    /\ proc[p].vstate[k] = "sent"
    /\ proc' = [proc EXCEPT ![p] =
            ValueArrives([@ EXCEPT !.refused = @ \cup {k}], k, JSONparse(ErrorBody))]
    /\ UNCHANGED <<store, nextId, fsDirs, fsFiles>>

\* fetch() or response.json() of a value read rejects: the callback throws.
ValueRejects(p, k) ==
    /\ proc[p].vstate[k] = "sent"
    /\ proc' = [proc EXCEPT ![p] =
            Throw([@ EXCEPT !.inflight = @ \ {ValueRequest(proc[p], k)},
                            !.vstate[k] = "rejected"], "fetch failed")]
    /\ UNCHANGED <<store, nextId, fsDirs, fsFiles>>

\* JSON.stringify(body) of the pairs: each value as its JSON text
WirePairs(pairs) ==
    [i \in 1..Len(pairs) |->
        [key |-> pairs[i].key, value |-> JSONstringify(pairs[i].value)]]

\* copyNamespace: PUT namespaces/<destId>/bulk with the pairs
BulkPutSend(p) ==
    /\ proc[p].pc = "bulk_put"
    /\ proc' = [proc EXCEPT ![p] =
            [Send(@, Request("PUT", "storage/kv", "namespaces/id/bulk",
                             proc[p].destId, 0, "", "",
                             WirePairs(proc[p].pairs), <<>>))
                EXCEPT !.pc = "bulk_put_wait"]]
    /\ UNCHANGED <<store, nextId, fsDirs, fsFiles>>

BulkPutRespond(p) ==
    /\ proc[p].pc = "bulk_put_wait"
    /\ HasNs(store, proc[p].destId)
    /\ store' = ServeBulkPut(store, proc[p].destId,
                             proc[p].log[proc[p].awaiting].pairs)
    /\ proc' = [proc EXCEPT ![p] = [Received(@) EXCEPT !.pc = "done"]]
    /\ UNCHANGED <<nextId, fsDirs, fsFiles>>

\* Mutant of keyNames: the first key is left out.
keyNamesTail(keys) == [i \in 1..(Len(keys) - 1) |-> keys[i + 1].name]

\* keys.map(key => key.name)
keyNames(keys) == [i \in 1..Len(keys) |-> keys[i].name]

\* clearNamespace: DELETE namespaces/<id>/bulk with the key names
BulkDeleteSend(p) ==
    /\ proc[p].pc = "bulk_delete"
    /\ proc' = [proc EXCEPT ![p] =
            [Send(@, Request("DELETE", "storage/kv", "namespaces/id/bulk",
                             proc[p].id, 0, "", "", <<>>,
                             keyNames(proc[p].keys)))
                EXCEPT !.pc = "bulk_delete_wait"]]
    /\ UNCHANGED <<store, nextId, fsDirs, fsFiles>>

BulkDeleteRespond(p) ==
    /\ proc[p].pc = "bulk_delete_wait"
    /\ HasNs(store, proc[p].id)
    /\ store' = ServeBulkDelete(store, proc[p].id,
                                proc[p].log[proc[p].awaiting].names)
    /\ proc' = [proc EXCEPT ![p] = [Received(@) EXCEPT !.pc = "done"]]
    /\ UNCHANGED <<nextId, fsDirs, fsFiles>>

\* ensureDir: await Deno.lstat(dir); a directory that exists is left alone.
EnsureDirLstat(p) ==
    /\ proc[p].ensure = "lstat"
    /\ proc' = [proc EXCEPT ![p].ensure =
            IF proc[p].dir \in fsDirs THEN "done" ELSE "mkdir"]
    /\ UNCHANGED <<store, nextId, fsDirs, fsFiles>>

\* ensureDir: await Deno.mkdir(dir, { recursive: true })
EnsureDirMkdir(p) ==
    /\ proc[p].ensure = "mkdir"
    /\ fsDirs' = fsDirs \cup {proc[p].dir}
    /\ proc' = [proc EXCEPT ![p].ensure = "done"]
    /\ UNCHANGED <<store, nextId, fsFiles>>

\* The value dump writes for key k
PairValue(P, k) ==
    P.pairs[CHOOSE i \in 1..Len(P.pairs) : P.pairs[i].key = k].value

\* Deno.writeTextFile(join(dir, pair.key), JSON.stringify(pair.value)): it
\* rejects when the directory does not exist.
WriteFile(p, k) ==
    /\ proc[p].wstate[k] = "start"
    /\ LET P == proc[p]
           path == joinPath(P.dir, k)
       IN  IF P.dir \in fsDirs
           THEN /\ fsFiles' = [q \in DOMAIN fsFiles \cup {path} |->
                        IF q = path THEN JSONstringify(PairValue(P, k))
                        ELSE fsFiles[q]]
                /\ LET Q == [P EXCEPT !.wstate[k] = "ok"] IN
                   proc' = [proc EXCEPT ![p] =
                        IF Q.pc = "writing"
                           /\ \A j \in Keys : Q.wstate[j] \in {"none", "ok"}
                        THEN [Q EXCEPT !.pc = "done"] ELSE Q]
           ELSE /\ fsFiles' = fsFiles
                /\ proc' = [proc EXCEPT ![p] =
                        Throw([P EXCEPT !.wstate[k] = "failed"],
                              "NotFound: " \o path)]
    /\ UNCHANGED <<store, nextId, fsDirs>>

\* The Pages projects of the account: the variables their production
\* deployment binds to KV namespaces, in the order the response reports
\* them. The deployment of "bare" has no kv_namespaces.
Projects ==
    [project \in {"site", "bare"} |->
        IF project = "site"
        THEN [configured |-> TRUE, names |-> <<"KV", "CACHE">>]
        ELSE [configured |-> FALSE, names |-> <<>>]]

\* Mutant of BindingsSend: the project is asked for with POST.
BindingsSendPost(p) ==
    /\ proc[p].pc = "pages"
    /\ proc' = [proc EXCEPT ![p] =
            [Send(@, Request("POST", "pages/projects", "project", Undefined, 0,
                             "", proc[p].src, <<>>, <<>>))
                EXCEPT !.pc = "pages_wait"]]
    /\ UNCHANGED <<store, nextId, fsDirs, fsFiles>>

\* listBindings: GET pages/projects/<project>
BindingsSend(p) ==
    /\ proc[p].pc = "pages"
    /\ proc' = [proc EXCEPT ![p] =
            [Send(@, Request("GET", "pages/projects", "project", Undefined, 0,
                             "", proc[p].src, <<>>, <<>>))
                EXCEPT !.pc = "pages_wait"]]
    /\ UNCHANGED <<store, nextId, fsDirs, fsFiles>>

\* listBindings: Object.keys(response.result.deployment_configs.production
\* .kv_namespaces), which throws a TypeError on undefined; each key is
\* printed.
BindingsRespond(p) ==
    /\ proc[p].pc = "pages_wait"
    /\ proc[p].src \in DOMAIN Projects
    /\ LET P == Received(proc[p])
           bindings == Projects[proc[p].src]
       IN  proc' = [proc EXCEPT ![p] =
                IF bindings.configured
                THEN [P EXCEPT !.bound = bindings.names, !.pc = "done"]
                ELSE Throw(P, "TypeError: Cannot convert undefined or null to object")]
    /\ UNCHANGED <<store, nextId, fsDirs, fsFiles>>

\* ------------------------------------------------------- the initial states

Absent == "absent"

\* The namespace contents that give each key the value d[k], or none.
MkKv(d) == [k \in {j \in Keys : d[j] # Absent} |-> d[k]]

SrcKvs ==
    { MkKv([k \in Keys |-> CASE k = "x" -> dx [] k = "y" -> dy [] OTHER -> dz]) :
        dx \in Docs \cup {Absent}, dy \in {"1", Absent}, dz \in {"true", Absent} }

DestKvs ==
    { MkKv([k \in Keys |-> Absent]),
      MkKv([k \in Keys |-> IF k = "x" THEN "true" ELSE Absent]),
      MkKv([k \in Keys |-> IF k = "z" THEN "true" ELSE Absent]) }

\* Accounts of up to three namespaces: "A" with contents, maybe "B", maybe a
\* second namespace titled "A".
SmallStores ==
    { SelectSeq(<< [id |-> 1, title |-> "A", kv |-> a],
                   [id |-> 3, title |-> IF dup THEN "A" ELSE "",
                    kv |-> MkKv([k \in Keys |-> IF k = "x" THEN "true" ELSE Absent])],
                   [id |-> 2, title |-> IF hasB THEN "B" ELSE "", kv |-> b] >>,
                LAMBDA n : n.title # "") :
        a \in SrcKvs, b \in DestKvs, hasB \in BOOLEAN, dup \in BOOLEAN }

\* Accounts of n namespaces with empty contents, titled "A" (a of them),
\* then "B" (b of them), then "C".
BigStores ==
    { [i \in 1..n |-> [id |-> i,
                       title |-> IF i <= a THEN "A" ELSE IF i <= a + b THEN "B" ELSE "C",
                       kv |-> <<>>]] :
        n \in 0..MaxNs, a \in 0..MaxNs, b \in 0..2 }

Init ==
    /\ store \in SmallStores \cup BigStores
    /\ nextId = 1 + Len(store) + 3
    /\ fsDirs = {"out", "old"}
    /\ fsFiles = [q \in {joinPath("old", "x")} |-> "true"]
    /\ proc = [p \in Procs |-> Idle]

Next ==
    \/ Invoke(1)
    \/ \E p \in Procs :
        \/ FetchThrows(p)
        \/ ListSend(p) \/ ListRespond(p)
        \/ RenameSend(p) \/ RenameRespond(p)
        \/ CreateSend(p) \/ CreateRespond(p)
        \/ KeysSend(p) \/ KeysRespond(p)
        \/ BulkPutSend(p) \/ BulkPutRespond(p)
        \/ BulkDeleteSend(p) \/ BulkDeleteRespond(p)
        \/ EnsureDirLstat(p) \/ EnsureDirMkdir(p)
        \/ BindingsSend(p) \/ BindingsRespond(p)
        \/ \E k \in Keys : ValueSend(p, k) \/ ValueRespond(p, k)
                              \/ ValueRefused(p, k) \/ ValueRejects(p, k)
                              \/ WriteFile(p, k)

Spec == Init /\ [][Next]_vars

\* Two invocations of `kvtool copy A B` at once, on an account where every
\* title is held by one namespace and none is titled "B".
RaceStores ==
    { << [id |-> 1, title |-> "A", kv |-> a] >> :
        a \in { MkKv([k \in Keys |-> Absent]),
                MkKv([k \in Keys |-> IF k = "x" THEN "1" ELSE Absent]) } }

RaceInit ==
    /\ store \in RaceStores
    /\ nextId = 1 + Len(store) + 3
    /\ fsDirs = {"out", "old"}
    /\ fsFiles = [q \in {joinPath("old", "x")} |-> "true"]
    /\ proc = [p \in Procs |-> Idle]

\* The shell starts `kvtool copy A B`.
InvokeCopy(p) ==
    /\ Invoke(p)
    /\ proc'[p].cmd = "copy" /\ proc'[p].src = "A" /\ proc'[p].dest = "B"

RaceNext ==
    \E p \in Procs :
        \/ InvokeCopy(p)
        \/ FetchThrows(p)
        \/ ListSend(p) \/ ListRespond(p)
        \/ CreateSend(p) \/ CreateRespond(p)
        \/ KeysSend(p) \/ KeysRespond(p)
        \/ BulkPutSend(p) \/ BulkPutRespond(p)
        \/ \E k \in Keys : ValueSend(p, k) \/ ValueRespond(p, k)
                              \/ ValueRefused(p, k) \/ ValueRejects(p, k)

SpecRace == RaceInit /\ [][RaceNext]_vars

\* `kvtool list` alone. Every page request is answered in the end, and the
\* loop of listNamespaces goes on when its await has settled.
InvokeList(p) == Invoke(p) /\ proc'[p].cmd = "list"

ListNext ==
    \/ InvokeList(1)
    \/ ListSend(1)
    \/ ListRespond(1)
    \/ FetchThrows(1)

SpecList ==
    /\ Init
    /\ [][ListNext]_vars
    /\ WF_vars(ListSend(1))
    /\ WF_vars(ListRespond(1))

\* ------------------------------------------------------------ the claims

\* What a full listing of the account s reports.
Listing(s) == [i \in 1..Len(s) |-> [id |-> s[i].id, title |-> s[i].title]]

TitledIn(s, title) == {i \in 1..Len(s) : s[i].title = title}

\* The namespace a title stands for: the first one a listing reports.
FirstTitled(s, title) ==
    s[CHOOSE i \in TitledIn(s, title) : \A j \in TitledIn(s, title) : i <= j]

\* The requests of a log that are of one method and action.
RequestsOf(log, method, action) ==
    {i \in 1..Len(log) : log[i].method = method /\ log[i].action = action}

\* The files that stood before any dump.
InitialFiles == {joinPath("old", "x")}

\* The key names one key listing of namespace id reports.
ListedKeys(s, id) == {ServeKeys(s, id)[i].name : i \in 1..Len(ServeKeys(s, id))}

\* C1: whenever copy(src, dest) completes without error, the
\* namespace that dest stands for holds every key the source held when copy
\* was called, each with the source's value, and a namespace titled dest
\* exists even if none did before the call.
C1_CopyEveryKey ==
    \A p \in Procs :
        LET P == proc[p] IN
        (P.cmd = "copy" /\ P.pc = "done") =>
            /\ TitledIn(P.called, P.src) # {}
            /\ TitledIn(store, P.dest) # {}
            /\ LET src0 == FirstTitled(P.called, P.src)
                   dst == FirstTitled(store, P.dest)
               IN  \A k \in DOMAIN src0.kv :
                      k \in DOMAIN dst.kv /\ dst.kv[k] = src0.kv[k]

\* The requests clear issued, to the namespace the title stood for: one key
\* listing and one bulk delete that names exactly the keys in `names`.
ClearRequests(P, id, names) ==
    LET listed == RequestsOf(P.log, "GET", "namespaces/id/keys")
        deleted == RequestsOf(P.log, "DELETE", "namespaces/id/bulk")
    IN  /\ Cardinality(listed) = 1
        /\ Cardinality(deleted) = 1
        /\ \A i \in listed \cup deleted : P.log[i].id = id
        /\ \A i \in deleted :
            /\ Len(P.log[i].names) = Cardinality(names)
            /\ {P.log[i].names[j] : j \in 1..Len(P.log[i].names)} = names

C3_DumpContract ==
    \A p \in Procs :
        LET P == proc[p] IN
        (P.cmd = "dump" /\ P.pc = "done") =>
            /\ TitledIn(P.called, P.src) # {}
            /\ LET ns0 == FirstTitled(P.called, P.src)
                   enumerated == ListedKeys(P.called, ns0.id)
               IN
               /\ \A k \in enumerated :
                    /\ joinPath(P.dir, k) \in DOMAIN fsFiles
                    /\ JSONparse(fsFiles[joinPath(P.dir, k)]) = P.value[k]
                    /\ P.value[k].t # "SyntaxError"
               /\ DOMAIN fsFiles \ InitialFiles
                    = {joinPath(P.dir, k) : k \in enumerated} \ InitialFiles

\* C3's case: a dump of two keys into a directory that did not exist is done.
C3_Witness ==
    \E p \in Procs :
        /\ proc[p].cmd = "dump" /\ proc[p].pc = "done" /\ proc[p].dir = "new"
        /\ Cardinality(DOMAIN FirstTitled(proc[p].called, proc[p].src).kv) = 2
        /\ \E k \in Keys : proc[p].value[k].t = "string"

\* C4: list() of N namespaces issues ceil(N / perPage) page requests when N
\* is no multiple of perPage and N / perPage + 1 when it is; the pages are
\* 1, 2, ... up to the first short one; the result is the whole listing in
\* the reported order.
C4_ListPages ==
    \A p \in Procs :
        LET P == proc[p]
            N == Len(P.called)
        IN
        (P.cmd = "list" /\ P.pc = "done") =>
            /\ Len(P.log) = IF N % perPage # 0
                            THEN (N + perPage - 1) \div perPage
                            ELSE (N \div perPage) + 1
            /\ \A i \in 1..Len(P.log) :
                /\ P.log[i].method = "GET"
                /\ P.log[i].action = "namespaces"
                /\ P.log[i].page = i
                /\ i < Len(P.log) => Len(ServePage(P.called, i, perPage)) = perPage
                /\ i = Len(P.log) => Len(ServePage(P.called, i, perPage)) < perPage
            /\ Len(P.namespaces) = N
            /\ P.namespaces = Listing(P.called)

\* C4's case: a listing of exactly two full pages took a third request.
C4_Witness ==
    \E p \in Procs :
        /\ proc[p].cmd = "list" /\ proc[p].pc = "done"
        /\ Len(proc[p].called) = 2 * perPage
        /\ Len(proc[p].log) = 3

\* C5: resolve(title) returns the identifier of the first namespace of the
\* full listing that has the title, also when several have it, and the
\* not-found signal exactly when none has it.
C5_ResolveFirst ==
    \A p \in Procs :
        LET P == proc[p]
            L == Listing(P.called)
            hits == {i \in 1..Len(L) : L[i].title = P.src}
        IN
        (P.cmd = "resolve" /\ P.pc = "done") =>
            /\ (P.id = Undefined) <=> (hits = {})
            /\ hits # {} =>
                \E i \in hits : P.id = L[i].id /\ \A j \in hits : i <= j

\* C5's case: two namespaces share the title, the last of one page and the
\* first of the next, and the first one is returned.
C5_Witness ==
    \E p \in Procs :
        /\ proc[p].cmd = "resolve" /\ proc[p].pc = "done"
        /\ TitledIn(proc[p].called, proc[p].src) = {perPage, perPage + 1}
        /\ proc[p].id = proc[p].called[perPage].id

\* C6: rename(src, dest) of a title no namespace has fails with the
\* not-found error and issues no mutating request, the store staying as it
\* was; when src resolves and rename completes, one update request was
\* issued, to the resolved identifier, with title dest, and nothing was
\* asked about dest.
C6_RenameContract ==
    \A p \in Procs :
        LET P == proc[p] IN
        P.cmd = "rename" =>
            /\ TitledIn(P.called, P.src) = {} =>
                /\ P.pc \in {"list", "list_wait", "failed"}
                /\ \A i \in 1..Len(P.log) : P.log[i].method = "GET"
                /\ store = P.called
                /\ (P.pc = "failed" /\ P.badReq = 0)
                        => P.err = "Namespace " \o P.src \o " not found"
            /\ (TitledIn(P.called, P.src) # {} /\ P.pc = "done") =>
                LET id0 == FirstTitled(P.called, P.src).id
                    pages == RequestsOf(P.log, "GET", "namespaces")
                    updates == RequestsOf(P.log, "PUT", "namespaces/id")
                IN  /\ Cardinality(updates) = 1
                    /\ \A i \in updates :
                        P.log[i].id = id0 /\ P.log[i].title = P.dest
                    /\ Len(P.log) = Cardinality(pages) + 1
                    /\ \A i \in pages : P.log[i].page = i
                    /\ NsOf(store, id0).title = P.dest

\* C6's case: a rename to a title another namespace holds is done, and two
\* namespaces hold the title.
C6_Witness ==
    \E p \in Procs :
        /\ proc[p].cmd = "rename" /\ proc[p].pc = "done"
        /\ Cardinality(TitledIn(proc[p].called, proc[p].dest)) = 1
        /\ Cardinality(TitledIn(store, proc[p].dest)) = 2

\* The JSON texts whose value is empty to `if (!value)`.
EmptyDocs == {"0", "\"\"", "false", "null"}

\* A value fetch of the fan-out failed: it was rejected, the remote
\* answered it with a non-success envelope, or it returned an empty value.
FetchFailed(P) ==
    \E k \in Keys :
        \/ P.vstate[k] = "rejected"
        \/ k \in P.refused
        \/ /\ P.vstate[k] \in {"ok", "missing"}
           /\ NsOf(P.called, P.srcId).kv[k] \in EmptyDocs

\* C7: when a value fetch of fetchAllValues fails or returns an empty value,
\* the operation fails and its caller gets no pairs: copy sends no create
\* and no bulk upsert, dump starts no write.
C7_FetchAllOrNothing ==
    \A p \in Procs :
        LET P == proc[p] IN
        (P.cmd \in {"copy", "dump"} /\ FetchFailed(P)) =>
            /\ P.pc = "failed"
            /\ P.ret = "bulkGet"
            /\ P.pairs = <<>>
            /\ \A i \in 1..Len(P.log) : P.log[i].method = "GET"
            /\ store = P.called
            /\ P.ensure = "none"
            /\ \A k \in Keys : P.wstate[k] = "none"
            /\ DOMAIN fsFiles = InitialFiles /\ fsDirs = {"out", "old"}

\* C8: a non-success envelope on an endpoint that is no value read fails the
\* call with one error whose message is the "<code>: <message>" of every
\* reported error, in order, joined by newlines; no request follows the
\* failed one, so it is not issued again.
C8_EnvelopeError ==
    \A p \in Procs :
        LET P == proc[p] IN
        P.badReq # 0 =>
            /\ P.pc = "failed"
            /\ P.log[P.badReq].action # "namespaces/id/values/key"
            /\ Len(P.badErrors) = 0 => P.err = ""
            /\ Len(P.badErrors) = 1 => P.err = "10000: Authentication error"
            /\ Len(P.badErrors) = 2 =>
                    P.err = "10013: namespace not found\n7003: no route"
            /\ Len(P.log) = P.badReq

\* C8's case: a bulk upsert was answered with two errors.
C8_Witness ==
    \E p \in Procs :
        /\ proc[p].badReq # 0
        /\ Len(proc[p].badErrors) = 2
        /\ proc[p].log[proc[p].badReq].method = "PUT"
        /\ proc[p].log[proc[p].badReq].action = "namespaces/id/bulk"

\* A step of the command's chain has failed.
StepFailed(P) ==
    \/ P.pc = "failed"
    \/ P.badReq # 0
    \/ P.refused # {}
    \/ \E k \in Keys : P.vstate[k] \in {"missing", "rejected"}
    \/ \E k \in Keys : P.wstate[k] = "failed"

\* C9: in rename, copy, clear and dump, once a step has failed the command
\* has failed, the store is not written again, and the only requests still
\* issued are value reads of the same fan-out, each for a key not yet asked
\* for; a copy that failed before resolving the destination issued no
\* create and no bulk upsert and left the store as it was.
C9_FailFast ==
    /\ [](\A p \in Procs :
            LET P == proc[p] IN
            (P.cmd \in {"rename", "copy", "clear", "dump"} /\ StepFailed(P)) =>
                /\ P.pc = "failed"
                /\ P.awaiting = 0
                /\ (P.cmd = "copy" /\ P.ret = "bulkGet") =>
                    /\ \A i \in 1..Len(P.log) : P.log[i].method = "GET"
                    /\ store = P.called)
    /\ [][\A p \in Procs :
            (proc[p].cmd \in {"rename", "copy", "clear", "dump"}
             /\ StepFailed(proc[p])) =>
                /\ store' = store
                /\ \A i \in (Len(proc[p].log) + 1)..Len(proc'[p].log) :
                    /\ proc'[p].log[i].action = "namespaces/id/values/key"
                    /\ proc'[p].log[i].method = "GET"
                    /\ \A j \in 1..Len(proc[p].log) :
                            proc[p].log[j] # proc'[p].log[i]]_vars

\* C10: in dump, ensureDir has completed before any file write is started,
\* and no write runs against a directory that does not exist.
C10_EnsureDirBeforeWrites ==
    \A p \in Procs : \A k \in Keys :
        /\ proc[p].wstate[k] # "none" => proc[p].ensure = "done"
        /\ proc[p].wstate[k] # "failed"

\* The page requests of a log.
PageRequests(log) == RequestsOf(log, "GET", "namespaces")

\* C11: within a list() call the pages are requested in the order 1, 2,
\* 3, ...; a page is requested only when the page before it has been
\* answered, and at most one page request is outstanding.
C11_SequentialPages ==
    \A p \in Procs :
        LET P == proc[p] IN
        /\ \A i \in PageRequests(P.log) :
            \/ P.log[i].page = 1
            \/ /\ i - 1 \in PageRequests(P.log)
               /\ P.log[i - 1].page = P.log[i].page - 1
        /\ \A i \in PageRequests(P.log) : i < Len(P.log) => i \notin P.inflight
        /\ Cardinality(P.inflight \cap PageRequests(P.log)) <= 1

\* C11's case: the third page has been requested and is outstanding.
C11_Witness ==
    \E p \in Procs :
        /\ proc[p].cmd = "list"
        /\ Len(proc[p].log) = 3
        /\ proc[p].log[3].page = 3
        /\ proc[p].inflight = {3}

\* C12: every key listing, value read, bulk upsert and bulk delete that
\* copy, dump and clear issue goes to a resource under storage/kv, and the
\* key listing of copy and dump is the one clear uses.
C12_StorageKvOnly ==
    \A p \in Procs :
        LET P == proc[p] IN
        P.cmd \in {"copy", "dump", "clear"} =>
            \A i \in 1..Len(P.log) :
                P.log[i].action \in {"namespaces/id/keys", "namespaces/id/values/key",
                                     "namespaces/id/bulk"}
                    => P.log[i].category = "storage/kv"

\* The value reads of a log.
ValueReads(log) == RequestsOf(log, "GET", "namespaces/id/values/key")

\* bulkGetNamespace has returned its pairs to copy or dump.
BulkGetReturned(P) == P.ret # "bulkGet" \/ P.ensure # "none"

\* C13: in a copy or a dump every value read is addressed to the namespace
\* the source title was resolved to, which is the one the keys were listed
\* from; a key that was listed gets one value read and no other key gets
\* any.
C13_ReadsFromSource ==
    \A p \in Procs :
        LET P == proc[p]
            reads == ValueReads(P.log)
            listed == {P.keys[i].name : i \in 1..Len(P.keys)}
        IN
        P.cmd \in {"copy", "dump"} =>
            /\ \A i \in reads :
                /\ TitledIn(P.called, P.src) # {}
                /\ P.log[i].id = FirstTitled(P.called, P.src).id
                /\ \E j \in 1..(i - 1) :
                    /\ P.log[j].action = "namespaces/id/keys"
                    /\ P.log[j].id = P.log[i].id
                /\ P.log[i].key \in listed
            /\ \A k \in Keys :
                Cardinality({i \in reads : P.log[i].key = k})
                    = IF k \in listed /\ P.vstate[k] # "start" THEN 1 ELSE 0
            /\ BulkGetReturned(P) => \A k \in listed : P.vstate[k] = "ok"

\* C13's case: a copy of two keys into a namespace that existed is done.
C13_Witness ==
    \E p \in Procs :
        /\ proc[p].cmd = "copy" /\ proc[p].pc = "done"
        /\ proc[p].src # proc[p].dest
        /\ TitledIn(proc[p].called, proc[p].dest) # {}
        /\ Cardinality(ValueReads(proc[p].log)) = 2

\* The identifiers of the namespaces of s.
IdsOf(s) == {s[i].id : i \in 1..Len(s)}

\* C14: a copy issues a create request exactly when the destination title
\* was not found, never more than one, and with that title; its bulk upsert
\* goes to the identifier the title resolved to when it was found and to
\* the identifier of the namespace just created otherwise.
C14_ResolveOrCreate ==
    \A p \in Procs :
        LET P == proc[p]
            creates == RequestsOf(P.log, "POST", "namespaces")
            upserts == RequestsOf(P.log, "PUT", "namespaces/id/bulk")
            found == TitledIn(P.called, P.dest) # {}
        IN
        P.cmd = "copy" =>
            /\ Cardinality(creates) <= 1
            /\ Cardinality(upserts) <= 1
            /\ \A i \in creates : ~found /\ P.log[i].title = P.dest
            /\ \A i \in upserts :
                /\ found => /\ creates = {}
                            /\ P.log[i].id = FirstTitled(P.called, P.dest).id
                /\ ~found =>
                    /\ Cardinality(creates) = 1
                    /\ \A j \in creates : j < i
                    /\ P.log[i].id \notin IdsOf(P.called)
                    /\ HasNs(store, P.log[i].id)
                    /\ NsOf(store, P.log[i].id).title = P.dest
                    /\ IdsOf(store) = IdsOf(P.called) \cup {P.log[i].id}
            /\ P.pc \in {"create_wait", "bulk_put", "bulk_put_wait", "done"}
                    => (creates # {} <=> ~found)

\* C14's case: a copy into a title that did not exist is done, after one
\* create and the upsert to the new namespace.
C14_Witness ==
    \E p \in Procs :
        /\ proc[p].cmd = "copy" /\ proc[p].pc = "done"
        /\ TitledIn(proc[p].called, proc[p].dest) = {}
        /\ Cardinality(RequestsOf(proc[p].log, "POST", "namespaces")) = 1
        /\ Cardinality(TitledIn(store, proc[p].dest)) = 1

\* C15: the missing-value error is raised only for a key whose value read
\* returned no content; a key whose read returned a JSON value, 0, false
\* and the empty string among them, is paired with that value.
C15_MissingOnlyNoContent ==
    \A p \in Procs : \A k \in Keys :
        LET P == proc[p] IN
        P.cmd \in {"copy", "dump"} =>
            /\ P.vstate[k] = "missing" => NsOf(P.called, P.srcId).kv[k] = "null"
            /\ (BulkGetReturned(P) /\ P.vstate[k] = "ok") =>
                    \E i \in 1..Len(P.pairs) :
                        P.pairs[i].key = k /\ P.pairs[i].value = P.value[k]

\* C16: list, resolve, dump and listBindings issue only GET requests, and
\* the namespaces, their titles and their contents stay as they were.
C16_ReadOnly ==
    \A p \in Procs :
        LET P == proc[p] IN
        P.cmd \in {"list", "resolve", "dump", "pages"} =>
            /\ \A i \in 1..Len(P.log) : P.log[i].method = "GET"
            /\ store = P.called

\* C16's case: listBindings has printed the bound variables of a project.
C16_Witness ==
    \E p \in Procs :
        /\ proc[p].cmd = "pages" /\ proc[p].pc = "done"
        /\ proc[p].bound = <<"KV", "CACHE">>
        /\ Len(proc[p].log) = 1
        /\ store = proc[p].called

\* What the remote returned to the value read of key k.
Fetched(P, k) ==
    IF k \in P.refused THEN JSONparse(ErrorBody)
    ELSE JSONparse(NsOf(P.called, P.srcId).kv[k])

\* C17: whatever the order in which the value reads are issued and
\* answered, a bulkGetNamespace that succeeds returns one pair per key
\* listed, in the order of the listing, each with the value that was
\* fetched for its own key.
C17_OrderIndependent ==
    \A p \in Procs :
        LET P == proc[p] IN
        (P.cmd \in {"copy", "dump"} /\ BulkGetReturned(P)) =>
            /\ Len(P.pairs) = Len(P.keys)
            /\ \A i \in 1..Len(P.pairs) :
                /\ P.pairs[i].key = P.keys[i].name
                /\ P.pairs[i].value = Fetched(P, P.keys[i].name)

\* C17's case: the value of y was asked for before the value of x, the
\* two values differ, and the pairs are returned with x first.
C17_Witness ==
    \E p \in Procs :
        LET P == proc[p] IN
        /\ P.cmd \in {"copy", "dump"} /\ BulkGetReturned(P)
        /\ Len(P.pairs) = 2
        /\ P.pairs[1].key = "x" /\ P.pairs[2].key = "y"
        /\ P.pairs[1].value # P.pairs[2].value
        /\ \E i, j \in ValueReads(P.log) :
            i < j /\ P.log[i].key = "y" /\ P.log[j].key = "x"

\* C18: on an account whose titles were each held by one namespace, after
\* two copies to the same title that no namespace held, in any
\* interleaving, at most one namespace holds a title.
C18_TitleUnique ==
    \A t \in Titles : Cardinality(TitledIn(store, t)) <= 1

\* C19: list() of an account that does not change, whose page requests
\* are all answered, returns in the end, unless an answer is a non-success
\* envelope; it returns on a page shorter than perPage and requests no page
\* after a short one.
C19_ListTerminates ==
    /\ [](\A p \in Procs :
            LET P == proc[p] IN
            P.cmd = "list" =>
                /\ \A i \in PageRequests(P.log) :
                    i < Len(P.log) =>
                        Len(ServePage(P.called, P.log[i].page, perPage)) = perPage
                /\ P.pc = "done" =>
                    /\ P.inflight = {}
                    /\ Len(ServePage(P.called, P.log[Len(P.log)].page, perPage))
                            < perPage)
    /\ \A p \in Procs :
            (proc[p].cmd = "list") ~> (proc[p].pc = "done" \/ proc[p].badReq # 0)

\* C19's case: a listing of two full pages has returned on the short page
\* that followed them.
C19_Witness ==
    \E p \in Procs :
        /\ proc[p].cmd = "list" /\ proc[p].pc = "done"
        /\ Len(proc[p].called) >= 2 * perPage
        /\ PageRequests(proc[p].log) = {1, 2, 3}
        /\ proc[p].badReq = 0

====
